---------------------------- MODULE Spec2Model ----------------------------
(***************************************************************************)
(* A model of malpedia-to-markdown.py: the ingestion pipeline (Fetcher,    *)
(* bounded hand-off queue, single Writer thread, Coordinator shutdown),    *)
(* the Existing-Output Index, and the alias resolution of attributions.    *)
(*                                                                         *)
(* Strings of the program are sequences of one-character strings, so that  *)
(* the text functions (sanitize_filename, the family_id pattern, upper,    *)
(* capitalize, ...) are computed character by character as the code does.  *)
(***************************************************************************)
EXTENDS Naturals, Sequences, FiniteSets, TLC

(***************************************************************************)
(* Characters and string helpers (Python str / re semantics, ASCII).       *)
(***************************************************************************)
LowerCase ==
    <<"a", "b", "c", "d", "e", "f", "g", "h", "i", "j", "k", "l", "m", "n", "o", "p", "q", "r", "s", "t", "u", "v", "w", "x", "y", "z">>

UpperCase ==
    <<"A", "B", "C", "D", "E", "F", "G", "H", "I", "J", "K", "L", "M", "N", "O", "P", "Q", "R", "S", "T", "U", "V", "W", "X", "Y", "Z">>

Digits ==
    <<"0", "1", "2", "3", "4", "5", "6", "7", "8", "9">>

Range(s) ==
    { s[k] : k \in DOMAIN s }

\* \w of Python's re, restricted to ASCII: letters, digits and underscore
WordChars ==
    Range(LowerCase) \cup Range(UpperCase) \cup Range(Digits) \cup {"_"}

\* \s of Python's re and the characters str.strip() removes
Whitespace ==
    {" ", "\t", "\n", "\r", "\f"}

\* str.upper() on one character
UpperChar(c) ==
    IF \E k \in DOMAIN LowerCase : LowerCase[k] = c
    THEN UpperCase[CHOOSE k \in DOMAIN LowerCase : LowerCase[k] = c]
    ELSE c

\* str.lower() on one character
LowerChar(c) ==
    IF \E k \in DOMAIN UpperCase : UpperCase[k] = c
    THEN LowerCase[CHOOSE k \in DOMAIN UpperCase : UpperCase[k] = c]
    ELSE c

\* str.upper()
Upper(s) ==
    [k \in DOMAIN s |-> UpperChar(s[k])]

\* str.capitalize(): first character upper-cased, the rest lower-cased
Capitalize(s) ==
    [k \in DOMAIN s |-> IF k = 1 THEN UpperChar(s[k]) ELSE LowerChar(s[k])]

\* re.sub(r'[chars]', repl, s) for a character class and a fixed replacement
RECURSIVE ReSubClass(_, _, _)
ReSubClass(chars, repl, s) ==
    IF s = << >> THEN << >>
    ELSE (IF Head(s) \in chars THEN repl ELSE <<Head(s)>>)
         \o ReSubClass(chars, repl, Tail(s))

RECURSIVE LStrip(_)
LStrip(s) ==
    IF s # << >> /\ Head(s) \in Whitespace THEN LStrip(Tail(s)) ELSE s

RECURSIVE RStrip(_)
RStrip(s) ==
    IF s # << >> /\ s[Len(s)] \in Whitespace
    THEN RStrip(SubSeq(s, 1, Len(s) - 1))
    ELSE s

\* str.strip()
Strip(s) ==
    RStrip(LStrip(s))

\* str.replace('  ', ' '): non-overlapping occurrences, left to right
RECURSIVE ReplaceDoubleSpace(_)
ReplaceDoubleSpace(s) ==
    IF Len(s) < 2 THEN s
    ELSE IF s[1] = " " /\ s[2] = " "
         THEN <<" ">> \o ReplaceDoubleSpace(SubSeq(s, 3, Len(s)))
         ELSE <<s[1]>> \o ReplaceDoubleSpace(Tail(s))

\* s.split('.')[0]: the text before the first '.', all of s when there is none
RECURSIVE BeforeFirstDot(_)
BeforeFirstDot(s) ==
    IF s = << >> \/ Head(s) = "." THEN << >>
    ELSE <<Head(s)>> \o BeforeFirstDot(Tail(s))

(***************************************************************************)
(* The pure functions of the program.                                      *)
(***************************************************************************)
platform_map ==
    {
      <<<<"w", "i", "n">>,
        <<"W", "i", "n", "d", "o", "w", "s">>>>,
      <<<<"o", "s", "x">>,
        <<"m", "a", "c", "O", "S">>>>,
      <<<<"i", "o", "s">>,
        <<"i", "O", "S">>>>,
      <<<<"a", "n", "d", "r", "o", "i", "d">>,
        <<"A", "n", "d", "r", "o", "i", "d">>>>,
      <<<<"e", "l", "f">>,
        <<"L", "i", "n", "u", "x", "/", "U", "n", "i", "x", " ", "E", "x", "e", "c", "u", "t", "a", "b", "l", "e">>>>,
      <<<<"a", "i", "x">>,
        <<"A", "I", "X">>>>,
      <<<<"a", "p", "k">>,
        <<"A", "n", "d", "r", "o", "i", "d", " ", "P", "a", "c", "k", "a", "g", "e">>>>,
      <<<<"a", "s", "p">>,
        <<"A", "S", "P", " ", "W", "e", "b">>>>,
      <<<<"f", "a", "s">>,
        <<"F", "l", "a", "s", "h", " ", "A", "c", "t", "i", "o", "n", "S", "c", "r", "i", "p", "t">>>>,
      <<<<"j", "a", "r">>,
        <<"J", "a", "v", "a", " ", "A", "r", "c", "h", "i", "v", "e">>>>,
      <<<<"j", "s">>,
        <<"J", "a", "v", "a", "S", "c", "r", "i", "p", "t">>>>,
      <<<<"j", "s", "p">>,
        <<"J", "a", "v", "a", " ", "S", "e", "r", "v", "e", "r", " ", "P", "a", "g", "e", "s">>>>,
      <<<<"p", "h", "p">>,
        <<"P", "H", "P", " ", "W", "e", "b">>>>,
      <<<<"p", "l">>,
        <<"P", "e", "r", "l">>>>,
      <<<<"p", "s", "1">>,
        <<"P", "o", "w", "e", "r", "S", "h", "e", "l", "l">>>>,
      <<<<"p", "y">>,
        <<"P", "y", "t", "h", "o", "n">>>>,
      <<<<"s", "h">>,
        <<"S", "h", "e", "l", "l", " ", "S", "c", "r", "i", "p", "t">>>>,
      <<<<"s", "y", "m", "b", "i", "a", "n">>,
        <<"S", "y", "m", "b", "i", "a", "n", " ", "O", "S">>>>,
      <<<<"v", "b", "s">>,
        <<"V", "i", "s", "u", "a", "l", " ", "B", "a", "s", "i", "c", " ", "S", "c", "r", "i", "p", "t">>>>
    }

Unknown ==
    <<"U", "n", "k", "n", "o", "w", "n">>

extract_platform_from_id(family_id) ==
    IF "." \in Range(family_id)
    THEN LET platform_code == BeforeFirstDot(family_id)
         IN  IF \E e \in platform_map : e[1] = platform_code
             THEN (CHOOSE e \in platform_map : e[1] = platform_code)[2]
             ELSE Capitalize(platform_code)
    ELSE Unknown

\* F applied to the value of its argument, which is computed once
Then(value, F(_)) ==
    CHOOSE result \in { F(v) : v \in {value} } : TRUE

\* re.sub(...), then .strip(), then .replace('  ', ' ')
get_platform_folder_name(platform) ==
    Then(Then(Then(platform,
                   LAMBDA p : ReSubClass({"/", "\\", "(", ")"}, <<" ">>, p)),
              Strip),
         ReplaceDoubleSpace)

sanitize_filename(name) ==
    Strip(ReSubClass({"\\", "/", "*", "?", ":", "\"", "<", ">", "|"}, << >>, name))

(***************************************************************************)
(* Alias resolution (resolve_attribution).  An Alias Map is a function     *)
(* from upper-cased names to primary names.                                *)
(***************************************************************************)
\* [mutant] the lookup without upper-casing the name
RECURSIVE ResolveLoopNoUpper(_, _, _)
ResolveLoopNoUpper(attribution_list, attribution_map, resolved_attributions) ==
    IF attribution_list = << >> THEN resolved_attributions
    ELSE LET attr == Head(attribution_list)
         IN  ResolveLoopNoUpper(Tail(attribution_list), attribution_map,
                 IF attr \in DOMAIN attribution_map
                 THEN resolved_attributions \cup {attribution_map[attr]}
                 ELSE resolved_attributions \cup {attr})

RECURSIVE ResolveLoop(_, _, _)
ResolveLoop(attribution_list, attribution_map, resolved_attributions) ==
    IF attribution_list = << >> THEN resolved_attributions
    ELSE LET attr == Head(attribution_list)
             attr_upper == Upper(attr)
         IN  ResolveLoop(Tail(attribution_list), attribution_map,
                 IF attr_upper \in DOMAIN attribution_map
                 THEN resolved_attributions \cup {attribution_map[attr_upper]}
                 ELSE resolved_attributions \cup {attr})

\* the result is list(set): its order is unspecified, so it is kept as a set
resolve_attribution(attribution_list, attribution_map) ==
    ResolveLoop(attribution_list, attribution_map, {})

(***************************************************************************)
(* Documents on storage.  A document is the text generate_markdown_file    *)
(* writes, kept by its fields; a write that raised after open() created    *)
(* the file leaves a truncated file without a frontmatter.                 *)
(***************************************************************************)
Document(family_id, name, resolved_attribution) ==
    [complete |-> TRUE, family_id |-> family_id, name |-> name,
     attribution |-> resolved_attribution]

TruncatedFile ==
    [complete |-> FALSE, family_id |-> << >>, name |-> << >>, attribution |-> {}]

\* the text of a document that follows "family_id:" in its frontmatter
\* (f"family_id: {family_id}\n" and the start of the next line)
TextAfterFamilyIdKey(doc) ==
    <<" ">> \o doc.family_id
        \o <<"\n", "l", "a", "s", "t", "_", "u", "p", "d", "a", "t", "e", "d", ":", " ">>

RECURSIVE LongestClassPrefix(_, _)
LongestClassPrefix(chars, s) ==
    IF s = << >> \/ Head(s) \notin chars THEN << >>
    ELSE <<Head(s)>> \o LongestClassPrefix(chars, Tail(s))

\* group 1 of re.search(r'family_id:\s*([\w.]+)', content) at the frontmatter's
\* family_id line; << >> when the pattern does not match there
MatchFamilyId(doc) ==
    LongestClassPrefix(WordChars \cup {"."}, LStrip(TextAfterFamilyIdKey(doc)))

\* the keys of the dict build_existing_files_map returns (its values, the file
\* stems, are never read by the program)
build_existing_files_map(files) ==
    { MatchFamilyId(files[path]) :
        path \in { q \in DOMAIN files :
                     /\ q[1] # << >>
                     /\ files[q].complete
                     /\ MatchFamilyId(files[q]) # << >> } }

None ==
    <<"None">>

\* [mutant] generate_markdown_file without the os.path.exists check of
\* lines 199-201: an existing file is written over
generate_markdown_file_overwrite(family_id, family_info, attribution_map, files) ==
    LET name == family_info.common_name
    IN  IF name = None \/ name = << >>
        THEN [files |-> files, result |-> None]
        ELSE LET platform == extract_platform_from_id(family_id)
                 platform_folder == get_platform_folder_name(platform)
                 filename == sanitize_filename(name)
                 file_path == <<platform_folder, filename>>
             IN  [files |-> (file_path :> Document(family_id, name,
                                 resolve_attribution(family_info.attribution,
                                                     attribution_map)))
                             @@ files,
                  result |-> platform_folder]

\* the outcome of generate_markdown_file when no I/O call raises:
\* the storage afterwards and the value returned
generate_markdown_file(family_id, family_info, attribution_map, files) ==
    LET name == family_info.common_name
    IN  IF name = None \/ name = << >>
        THEN [files |-> files, result |-> None]
        ELSE LET platform == extract_platform_from_id(family_id)
                 platform_folder == get_platform_folder_name(platform)
                 filename == sanitize_filename(name)
                 file_path == <<platform_folder, filename>>
             IN  IF file_path \in DOMAIN files
                 THEN [files |-> files, result |-> None]
                 ELSE [files |-> (file_path :> Document(family_id, name,
                                     resolve_attribution(family_info.attribution,
                                                         attribution_map)))
                                 @@ files,
                       result |-> platform_folder]

\* the path generate_markdown_file writes for an item
FilePath(item) ==
    <<get_platform_folder_name(extract_platform_from_id(item.family_id)),
      sanitize_filename(item.family_info.common_name)>>

(***************************************************************************)
(* The inputs: what the catalog service may answer.                        *)
(***************************************************************************)
\* queue.Queue(maxsize=100), scaled down so that the queue fills
maxsize ==
    2

\* the longest catalog list the service returns
MaxListLen ==
    3

WinA ==
    <<"w", "i", "n", ".", "a">>

WinB ==
    <<"w", "i", "n", ".", "b">>

ElfCD ==
    <<"e", "l", "f", ".", "c", "-", "d">>

FamilyIds ==
    {WinA, WinB, ElfCD}

\* the order in which the catalog lists its families
CatalogOrder ==
    <<WinA, WinB, ElfCD>>

Position(family_id) ==
    CHOOSE k \in DOMAIN CatalogOrder : CatalogOrder[k] = family_id

\* the catalog lists: the families the catalog holds at the time of the request,
\* each once (ids are unique in the catalog), in the catalog's order
CatalogLists ==
    { l \in UNION { [1..n -> FamilyIds] : n \in 0..MaxListLen } :
        \A j, k \in DOMAIN l : j < k => Position(l[j]) < Position(l[k]) }

\* common_name values: "F?" (sanitized to "F"), "B", the empty string, missing
CommonNames ==
    { <<"F", "?">>, <<"B">>, << >>, None }

GroupAlpha ==
    <<"G", "r", "o", "u", "p", " ", "A", "l", "p", "h", "a">>

\* the attribution list the catalog holds for a family
CatalogAttribution(family_id) ==
    IF family_id = WinA THEN << <<"a", "p", "t", "-", "x">> >> ELSE << >>

\* the Alias Map build_attribution_map returns from the alias partitions
AliasMap ==
    (<<"A", "P", "T", "-", "X">> :> GroupAlpha) @@ (Upper(GroupAlpha) :> GroupAlpha)

HTTP_OK ==
    200

\* the outcomes of requests.get(f"{base_url}/get/family/{family_id}") and
\* .json(): an exception, a status code, and with status 200 the payload
NoInfo ==
    [common_name |-> None, attribution |-> << >>]

DetailResponses(family_id) ==
    { [raised |-> FALSE, status_code |-> HTTP_OK,
       family_info |-> [common_name |-> n,
                        attribution |-> CatalogAttribution(family_id)]] :
          n \in CommonNames }
    \cup { [raised |-> FALSE, status_code |-> 404, family_info |-> NoInfo],
           [raised |-> TRUE, status_code |-> 0, family_info |-> NoInfo] }

(***************************************************************************)
(* The state.                                                              *)
(***************************************************************************)
VARIABLES
    files,              \* storage: path <<platform folder, file stem>> -> document
    pc,                 \* main thread (Coordinator and Fetcher): position
    existing_files_map, \* main: keys of the Existing-Output Index
    families_list,      \* main: the catalog list
    families_to_fetch,  \* main: the ids to fetch
    i,                  \* main: index into families_to_fetch of the next id
    family_info,        \* main: the payload about to be enqueued
    total_fetched,      \* main: counter of enqueued records
    total_skipped,      \* main: len(existing_files_map)
    file_queue,         \* queue.Queue: the items, oldest first
    unfinished_tasks,   \* queue.Queue: puts not yet matched by task_done()
    stop_event,         \* threading.Event
    stats_dict,         \* platform folder -> count
    stats_lock,         \* threading.Lock: "free", or the thread holding it
    wpc,                \* writer thread: position
    w_item,             \* writer: the item dequeued, << >> when none
    platform_folder,    \* writer: what generate_markdown_file returned
    requests,           \* history: number of requests dispatched this run
    delayed,            \* history: time.sleep(1.1) ran since the last request
    requested,          \* history: ids of the detail requests, in order
    last_answer,        \* history: the id and the answer of the detail request
                        \* main is dealing with, NoAnswer otherwise
    enqueued,           \* history: ids put on the queue, in order
    processed,          \* history: ids the writer finished with, in order
    created,            \* history: ids whose document was written, in order
    exit_path,          \* history: how main left the try block
    join_result,        \* history: how writer_thread.join(timeout=30) returned
    reported,           \* what the summary logged, << >> before
    dropped,            \* history: ids whose processing raised in the writer
    answers,            \* history: what the catalog service answered this run
    replay_mode,        \* "off"; or "first" / "second": the second run is given
                        \* the answers of the first
    prev,               \* the first run's answers and outcome, in the second
    r_names,            \* resolve_attribution alone: the list of names given
    r_map,              \* resolve_attribution alone: the Alias Map given
    r_called,           \* resolve_attribution alone: it has been called
    r_result            \* resolve_attribution alone: the set it returned

pipelineVars ==
    <<files, pc, existing_files_map, families_list, families_to_fetch, i,
      family_info, total_fetched, total_skipped, file_queue, unfinished_tasks,
      stop_event, stats_dict, stats_lock, wpc, w_item, platform_folder, requests, delayed,
      requested, last_answer, enqueued, processed, created, exit_path,
      join_result, reported, dropped, answers, replay_mode, prev>>

resolveVars ==
    <<r_names, r_map, r_called, r_result>>

vars ==
    <<pipelineVars, resolveVars>>

NoFiles ==
    << >>

\* nothing asked of the catalog service yet
NoAnswers ==
    [list_answered |-> FALSE, list_raised |-> FALSE, families_list |-> << >>,
     detail |-> << >>]

NoAnswer ==
    [family_id |-> << >>,
     response |-> [raised |-> FALSE, status_code |-> 0, family_info |-> NoInfo]]

NoPrev ==
    [answers |-> NoAnswers, exit_path |-> "none", dropped |-> << >>]

\* the state main() is in when it enters its try block: index built, queue,
\* event and statistics created, writer thread started
RunStart(storage, mode) ==
    /\ files = storage
    /\ replay_mode = mode
    /\ prev = NoPrev
    /\ answers = NoAnswers
    /\ dropped = << >>
    /\ pc = "list"
    /\ existing_files_map = build_existing_files_map(storage)
    /\ families_list = << >>
    /\ families_to_fetch = << >>
    /\ i = 1
    /\ family_info = NoInfo
    /\ total_fetched = 0
    /\ total_skipped = 0
    /\ file_queue = << >>
    /\ unfinished_tasks = 0
    /\ stop_event = FALSE
    /\ stats_dict = << >>
    /\ stats_lock = "free"
    /\ wpc = "check"
    /\ w_item = << >>
    /\ platform_folder = None
    /\ requests = 0
    /\ delayed = FALSE
    /\ requested = << >>
    /\ last_answer = NoAnswer
    /\ enqueued = << >>
    /\ processed = << >>
    /\ created = << >>
    /\ exit_path = "none"
    /\ join_result = "none"
    /\ reported = << >>

\* resolve_attribution is not called on its own
NoResolve ==
    /\ r_names = << >>
    /\ r_map = << >>
    /\ r_called = FALSE
    /\ r_result = {}

Init ==
    RunStart(NoFiles, "off") /\ NoResolve

(***************************************************************************)
(* The main thread: main(), lines 335-418.                                 *)
(***************************************************************************)
\* what only the writer thread changes
writerVars ==
    <<wpc, w_item, platform_folder, processed, created, dropped, stats_dict, stats_lock, files>>

\* what stays as it is during one run
runVars ==
    <<existing_files_map, replay_mode, prev, resolveVars>>

\* the catalog service: any answer, except in the second of two runs against
\* an unchanged catalog, where it repeats the answers it gave in the first
ListAnswers ==
    IF replay_mode = "second" /\ prev.answers.list_answered
    THEN {prev.answers.families_list}
    ELSE IF replay_mode = "second" /\ prev.answers.list_raised
         THEN {}
         ELSE CatalogLists

ListMayRaise ==
    ~(replay_mode = "second" /\ prev.answers.list_answered)

DetailAnswers(family_id) ==
    IF replay_mode = "second" /\ family_id \in DOMAIN prev.answers.detail
    THEN {prev.answers.detail[family_id]}
    ELSE DetailResponses(family_id)

Recorded(new_answers) ==
    IF replay_mode = "off" THEN answers ELSE new_answers

\* [family_id for family_id in families_list if family_id not in existing_files_map]
RECURSIVE FilterNotIn(_, _)
FilterNotIn(list, index) ==
    IF list = << >> THEN << >>
    ELSE (IF Head(list) \in index THEN << >> ELSE <<Head(list)>>)
         \o FilterNotIn(Tail(list), index)

\* [mutant] line 343 without the filter: every listed id is fetched
ListOkNoFilter ==
    /\ pc = "list"
    /\ \E list \in ListAnswers :
        /\ families_list' = list
        /\ families_to_fetch' = list
        /\ answers' = Recorded([answers EXCEPT !.list_answered = TRUE,
                                               !.families_list = list])
    /\ requests' = requests + 1
    /\ delayed' = TRUE
    /\ total_skipped' = Cardinality(existing_files_map)
    /\ pc' = "fetch"
    /\ UNCHANGED <<i, family_info, total_fetched, file_queue, unfinished_tasks,
                   stop_event, requested, last_answer, enqueued, exit_path,
                   join_result, reported>>
    /\ UNCHANGED <<runVars, writerVars>>

\* lines 338-353: the list request answers; sleep; filter
ListOk ==
    /\ pc = "list"
    /\ \E list \in ListAnswers :
        /\ families_list' = list
        /\ families_to_fetch' = FilterNotIn(list, existing_files_map)
        /\ answers' = Recorded([answers EXCEPT !.list_answered = TRUE,
                                               !.families_list = list])
    /\ requests' = requests + 1
    /\ delayed' = TRUE
    /\ total_skipped' = Cardinality(existing_files_map)
    /\ pc' = "fetch"
    /\ UNCHANGED <<i, family_info, total_fetched, file_queue, unfinished_tasks,
                   stop_event, requested, last_answer, enqueued, exit_path,
                   join_result, reported>>
    /\ UNCHANGED <<runVars, writerVars>>

\* lines 338-339 raise (network error, invalid JSON): except Exception, 415-417
ListFail ==
    /\ pc = "list"
    /\ ListMayRaise
    /\ answers' = Recorded([answers EXCEPT !.list_raised = TRUE])
    /\ requests' = requests + 1
    /\ stop_event' = TRUE
    /\ exit_path' = "error"
    /\ pc' = "hjoin"
    /\ UNCHANGED <<families_list, families_to_fetch, i, family_info,
                   total_fetched, total_skipped, file_queue, unfinished_tasks,
                   delayed, requested, last_answer, enqueued, join_result,
                   reported>>
    /\ UNCHANGED <<runVars, writerVars>>

\* [mutant] the loop body without the common_name check of lines 367-369
AfterResponseNoGate(r) ==
    IF r.raised THEN [pc |-> "fetch", slept |-> TRUE]
    ELSE IF r.status_code # HTTP_OK THEN [pc |-> "fetch", slept |-> FALSE]
    ELSE [pc |-> "put", slept |-> FALSE]

\* [mutant] the loop body without the try of lines 357-382: an error raised
\* by the request leaves the loop for the handler of line 415
AfterResponseRaiseAborts(r) ==
    IF r.raised THEN [pc |-> "hjoin", slept |-> FALSE]
    ELSE IF r.status_code # HTTP_OK THEN [pc |-> "fetch", slept |-> FALSE]
    ELSE IF r.family_info.common_name = None \/ r.family_info.common_name = << >>
         THEN [pc |-> "fetch", slept |-> FALSE]
    ELSE [pc |-> "put", slept |-> FALSE]

\* what the loop body does with one answer, lines 359-385:
\* the next position of main and whether time.sleep(1.1) at line 385 ran
AfterResponse(r) ==
    IF r.raised THEN [pc |-> "fetch", slept |-> TRUE]
    ELSE IF r.status_code # HTTP_OK THEN [pc |-> "fetch", slept |-> FALSE]
    ELSE IF r.family_info.common_name = None \/ r.family_info.common_name = << >>
         THEN [pc |-> "fetch", slept |-> FALSE]
    ELSE [pc |-> "put", slept |-> FALSE]

\* lines 356-371 (and 381-385 when the request raised): one detail request
Request ==
    /\ pc = "fetch"
    /\ i <= Len(families_to_fetch)
    /\ \E r \in DetailAnswers(families_to_fetch[i]) :
        LET next == AfterResponse(r)
        IN  /\ answers' = Recorded([answers EXCEPT !.detail =
                                        (families_to_fetch[i] :> r) @@ @])
            /\ last_answer' = [family_id |-> families_to_fetch[i], response |-> r]
            /\ pc' = next.pc
            /\ delayed' = next.slept
            /\ i' = IF next.pc = "put" THEN i ELSE i + 1
            /\ family_info' = IF next.pc = "put" THEN r.family_info ELSE NoInfo
    /\ requests' = requests + 1
    /\ requested' = Append(requested, families_to_fetch[i])
    /\ UNCHANGED <<families_list, families_to_fetch, total_fetched,
                   total_skipped, file_queue, unfinished_tasks, stop_event,
                   enqueued, exit_path, join_result, reported>>
    /\ UNCHANGED <<runVars, writerVars>>

\* [mutant] put on a queue without a capacity
PutUnbounded ==
    /\ pc = "put"
    /\ file_queue' = Append(file_queue,
                            [family_id |-> families_to_fetch[i],
                             family_info |-> family_info])
    /\ unfinished_tasks' = unfinished_tasks + 1
    /\ total_fetched' = total_fetched + 1
    /\ enqueued' = Append(enqueued, families_to_fetch[i])
    /\ delayed' = TRUE
    /\ i' = i + 1
    /\ family_info' = NoInfo
    /\ last_answer' = NoAnswer
    /\ pc' = "fetch"
    /\ UNCHANGED <<families_list, families_to_fetch, total_skipped, stop_event,
                   requests, requested, answers, exit_path, join_result,
                   reported>>
    /\ UNCHANGED <<runVars, writerVars>>

\* lines 374-385: file_queue.put blocks while the queue is full; then the
\* counter and the delay
Put ==
    /\ pc = "put"
    /\ Len(file_queue) < maxsize
    /\ file_queue' = Append(file_queue,
                            [family_id |-> families_to_fetch[i],
                             family_info |-> family_info])
    /\ unfinished_tasks' = unfinished_tasks + 1
    /\ total_fetched' = total_fetched + 1
    /\ enqueued' = Append(enqueued, families_to_fetch[i])
    /\ delayed' = TRUE
    /\ i' = i + 1
    /\ family_info' = NoInfo
    /\ last_answer' = NoAnswer
    /\ pc' = "fetch"
    /\ UNCHANGED <<families_list, families_to_fetch, total_skipped, stop_event,
                   requests, requested, answers, exit_path, join_result,
                   reported>>
    /\ UNCHANGED <<runVars, writerVars>>

\* what main changes besides its position when it only moves on or sets a flag
mainData ==
    <<families_list, families_to_fetch, i, family_info, total_fetched,
      total_skipped, file_queue, unfinished_tasks, requests, delayed,
      requested, enqueued, answers>>

\* [mutant] the loop is over and main goes on without stop_event.set()
SignalStopNoSignal ==
    /\ pc = "fetch"
    /\ i > Len(families_to_fetch)
    /\ last_answer' = NoAnswer
    /\ pc' = "qjoin"
    /\ UNCHANGED <<mainData, stop_event, exit_path, join_result, reported>>
    /\ UNCHANGED <<runVars, writerVars>>

\* line 388: the loop is over, stop_event.set()
SignalStop ==
    /\ pc = "fetch"
    /\ i > Len(families_to_fetch)
    /\ stop_event' = TRUE
    /\ last_answer' = NoAnswer
    /\ pc' = "qjoin"
    /\ UNCHANGED <<mainData, exit_path, join_result, reported>>
    /\ UNCHANGED <<runVars, writerVars>>

\* [mutant] main goes on without waiting in file_queue.join()
QueueJoinNoWait ==
    /\ pc = "qjoin"
    /\ pc' = "tjoin"
    /\ UNCHANGED <<mainData, last_answer, stop_event, exit_path, join_result, reported>>
    /\ UNCHANGED <<runVars, writerVars>>

\* line 391: file_queue.join() returns once unfinished_tasks is 0
QueueJoin ==
    /\ pc = "qjoin"
    /\ unfinished_tasks = 0
    /\ pc' = "tjoin"
    /\ UNCHANGED <<mainData, last_answer, stop_event, exit_path, join_result, reported>>
    /\ UNCHANGED <<runVars, writerVars>>

\* threading.Thread.join(timeout): returns when the thread has ended or the
\* timeout has elapsed
writer_join(timeout_elapsed) ==
    wpc = "done" \/ timeout_elapsed

\* line 392: writer_thread.join(timeout=30)
ThreadJoin ==
    /\ pc = "tjoin"
    /\ \E timeout_elapsed \in BOOLEAN :
        /\ writer_join(timeout_elapsed)
        /\ join_result' = IF wpc = "done" THEN "ended" ELSE "timeout"
    /\ pc' = "summary"
    /\ UNCHANGED <<mainData, last_answer, stop_event, exit_path, reported>>
    /\ UNCHANGED <<runVars, writerVars>>

\* lines 394-408: the summary; stats_dict is read without stats_lock
Summary ==
    /\ pc = "summary"
    /\ reported' = [total_families |-> Len(families_list),
                    files_skipped |-> total_skipped,
                    files_created |-> total_fetched,
                    by_platform |-> stats_dict,
                    writer_ended |-> (wpc = "done")]
    /\ exit_path' = "normal"
    /\ pc' = "done"
    /\ UNCHANGED <<mainData, last_answer, stop_event, join_result>>
    /\ UNCHANGED <<runVars, writerVars>>

\* [mutant] the KeyboardInterrupt handler without stop_event.set()
InterruptNoSignal ==
    /\ pc \in {"list", "fetch", "put", "qjoin", "tjoin", "summary"}
    /\ exit_path' = "interrupt"
    /\ last_answer' = NoAnswer
    /\ pc' = "hjoin"
    /\ UNCHANGED <<mainData, stop_event, join_result, reported>>
    /\ UNCHANGED <<runVars, writerVars>>

\* KeyboardInterrupt anywhere in the try block: lines 410-412, stop_event.set()
Interrupt ==
    /\ pc \in {"list", "fetch", "put", "qjoin", "tjoin", "summary"}
    /\ stop_event' = TRUE
    /\ exit_path' = "interrupt"
    /\ last_answer' = NoAnswer
    /\ pc' = "hjoin"
    /\ UNCHANGED <<mainData, join_result, reported>>
    /\ UNCHANGED <<runVars, writerVars>>

\* lines 413 and 418: writer_thread.join(timeout=30) in a handler
HandlerJoin ==
    /\ pc = "hjoin"
    /\ \E timeout_elapsed \in BOOLEAN :
        /\ writer_join(timeout_elapsed)
        /\ join_result' = IF wpc = "done" THEN "ended" ELSE "timeout"
    /\ pc' = "done"
    /\ UNCHANGED <<mainData, last_answer, stop_event, exit_path, reported>>
    /\ UNCHANGED <<runVars, writerVars>>

\* main() returns and the process exits: the daemon writer thread (line 332)
\* ends with it, wherever it is; ended inside generate_markdown_file after
\* open() created the file, it leaves the file truncated
ProcessExit ==
    /\ pc = "done"
    /\ pc' = "exited"
    /\ wpc' = IF wpc = "done" THEN "done" ELSE "killed"
    /\ \/ files' = files
       \/ /\ wpc = "generate"
          /\ FilePath(w_item) \notin DOMAIN files
          /\ files' = (FilePath(w_item) :> TruncatedFile) @@ files
    /\ UNCHANGED <<mainData, last_answer, stop_event, exit_path, join_result, reported>>
    /\ UNCHANGED <<runVars, stats_dict, stats_lock, w_item, platform_folder, processed,
                   created, dropped>>

\* the next invocation of the program on the same storage: lines 310-333
StartRun ==
    /\ pc = "exited"
    /\ replay_mode # "second"
    /\ replay_mode' = IF replay_mode = "first" THEN "second" ELSE "off"
    /\ prev' = IF replay_mode = "first"
               THEN [answers |-> answers, exit_path |-> exit_path,
                     dropped |-> dropped]
               ELSE NoPrev
    /\ answers' = NoAnswers
    /\ dropped' = << >>
    /\ files' = files
    /\ pc' = "list"
    /\ existing_files_map' = build_existing_files_map(files)
    /\ families_list' = << >>
    /\ families_to_fetch' = << >>
    /\ i' = 1
    /\ family_info' = NoInfo
    /\ total_fetched' = 0
    /\ total_skipped' = 0
    /\ file_queue' = << >>
    /\ unfinished_tasks' = 0
    /\ stop_event' = FALSE
    /\ stats_dict' = << >>
    /\ stats_lock' = "free"
    /\ wpc' = "check"
    /\ w_item' = << >>
    /\ platform_folder' = None
    /\ requests' = 0
    /\ delayed' = FALSE
    /\ requested' = << >>
    /\ last_answer' = NoAnswer
    /\ enqueued' = << >>
    /\ processed' = << >>
    /\ created' = << >>
    /\ exit_path' = "none"
    /\ join_result' = "none"
    /\ reported' = << >>
    /\ UNCHANGED resolveVars

(***************************************************************************)
(* The writer thread: file_writer_thread, lines 256-274.                   *)
(***************************************************************************)
\* what only the main thread changes
mainVars ==
    <<pc, families_list, families_to_fetch, i, family_info, total_fetched,
      total_skipped, requests, delayed, requested, last_answer, enqueued,
      answers, exit_path, join_result, reported, runVars>>

\* line 258, first operand: stop_event.is_set()
W_CheckStop ==
    /\ wpc = "check"
    /\ wpc' = IF stop_event THEN "check_empty" ELSE "get"
    /\ UNCHANGED <<files, file_queue, unfinished_tasks, stop_event, stats_dict, stats_lock,
                   w_item, platform_folder, processed, created, dropped>>
    /\ UNCHANGED mainVars

\* [mutant] the loop condition without file_queue.empty(): the loop ends as
\* soon as stop_event is seen set
W_CheckEmptyIgnored ==
    /\ wpc = "check_empty"
    /\ wpc' = "done"
    /\ UNCHANGED <<files, file_queue, unfinished_tasks, stop_event, stats_dict, stats_lock,
                   w_item, platform_folder, processed, created, dropped>>
    /\ UNCHANGED mainVars

\* line 258, second operand: file_queue.empty(); the loop ends when it is
W_CheckEmpty ==
    /\ wpc = "check_empty"
    /\ wpc' = IF file_queue = << >> THEN "done" ELSE "get"
    /\ UNCHANGED <<files, file_queue, unfinished_tasks, stop_event, stats_dict, stats_lock,
                   w_item, platform_folder, processed, created, dropped>>
    /\ UNCHANGED mainVars

\* [mutant] get takes the newest item (queue.LifoQueue)
W_GetNewest ==
    /\ wpc = "get"
    /\ IF file_queue # << >>
       THEN /\ w_item' = file_queue[Len(file_queue)]
            /\ file_queue' = SubSeq(file_queue, 1, Len(file_queue) - 1)
            /\ wpc' = "generate"
       ELSE /\ wpc' = "check"
            /\ UNCHANGED <<w_item, file_queue>>
    /\ UNCHANGED <<files, unfinished_tasks, stop_event, stats_dict, stats_lock,
                   platform_folder, processed, created, dropped>>
    /\ UNCHANGED mainVars

\* line 261: file_queue.get(timeout=1) takes the oldest item, or raises
\* queue.Empty after the timeout (lines 270-271: continue)
W_Get ==
    /\ wpc = "get"
    /\ IF file_queue # << >>
       THEN /\ w_item' = Head(file_queue)
            /\ file_queue' = Tail(file_queue)
            /\ wpc' = "generate"
       ELSE /\ wpc' = "check"
            /\ UNCHANGED <<w_item, file_queue>>
    /\ UNCHANGED <<files, unfinished_tasks, stop_event, stats_dict, stats_lock,
                   platform_folder, processed, created, dropped>>
    /\ UNCHANGED mainVars

\* [mutant] the loop body without the handler of lines 272-274: an error raised
\* by generate_markdown_file ends the thread
W_GenerateErrorEndsThread ==
    /\ wpc = "generate"
    /\ \/ LET r == generate_markdown_file(w_item.family_id, w_item.family_info,
                                          AliasMap, files)
          IN  /\ files' = r.files
              /\ platform_folder' = r.result
              /\ created' = IF r.result # None
                            THEN Append(created, w_item.family_id)
                            ELSE created
              /\ IF r.result \notin {None, << >>}
                 THEN /\ wpc' = "stats"
                      /\ UNCHANGED processed
                 ELSE /\ processed' = Append(processed, w_item.family_id)
                      /\ wpc' = "task_done"
              /\ UNCHANGED dropped
       \/ /\ \/ files' = files
             \/ /\ FilePath(w_item) \notin DOMAIN files
                /\ files' = (FilePath(w_item) :> TruncatedFile) @@ files
          /\ platform_folder' = None
          /\ dropped' = Append(dropped, w_item.family_id)
          /\ wpc' = "done"
          /\ UNCHANGED <<created, processed>>
    /\ UNCHANGED <<file_queue, unfinished_tasks, stop_event, stats_dict, stats_lock, w_item>>
    /\ UNCHANGED mainVars

\* [mutant] the handler of lines 272-274 without file_queue.task_done()
W_GenerateErrorNotDone ==
    /\ wpc = "generate"
    /\ \/ LET r == generate_markdown_file(w_item.family_id, w_item.family_info,
                                          AliasMap, files)
          IN  /\ files' = r.files
              /\ platform_folder' = r.result
              /\ created' = IF r.result # None
                            THEN Append(created, w_item.family_id)
                            ELSE created
              /\ IF r.result \notin {None, << >>}
                 THEN /\ wpc' = "stats"
                      /\ UNCHANGED processed
                 ELSE /\ processed' = Append(processed, w_item.family_id)
                      /\ wpc' = "task_done"
              /\ UNCHANGED dropped
       \/ /\ \/ files' = files
             \/ /\ FilePath(w_item) \notin DOMAIN files
                /\ files' = (FilePath(w_item) :> TruncatedFile) @@ files
          /\ platform_folder' = None
          /\ processed' = Append(processed, w_item.family_id)
          /\ dropped' = Append(dropped, w_item.family_id)
          /\ wpc' = "check"
          /\ UNCHANGED created
    /\ UNCHANGED <<file_queue, unfinished_tasks, stop_event, stats_dict, stats_lock, w_item>>
    /\ UNCHANGED mainVars

\* lines 262-264: generate_markdown_file returns (a non-empty folder: go on to
\* the statistics; None or an empty folder name: straight to task_done), or an
\* I/O call in it raises (lines 272-274):
\* os.makedirs or open() before any file exists, or a write after open()
\* created the file
W_Generate ==
    /\ wpc = "generate"
    /\ \/ LET r == generate_markdown_file(w_item.family_id, w_item.family_info,
                                          AliasMap, files)
          IN  /\ files' = r.files
              /\ platform_folder' = r.result
              /\ created' = IF r.result # None
                            THEN Append(created, w_item.family_id)
                            ELSE created
              /\ IF r.result \notin {None, << >>}
                 THEN /\ wpc' = "stats"
                      /\ UNCHANGED processed
                 ELSE /\ processed' = Append(processed, w_item.family_id)
                      /\ wpc' = "task_done"
              /\ UNCHANGED dropped
       \/ /\ \/ files' = files
             \/ /\ FilePath(w_item) \notin DOMAIN files
                /\ files' = (FilePath(w_item) :> TruncatedFile) @@ files
          /\ platform_folder' = None
          /\ processed' = Append(processed, w_item.family_id)
          /\ dropped' = Append(dropped, w_item.family_id)
          /\ wpc' = "task_done"
          /\ UNCHANGED created
    /\ UNCHANGED <<file_queue, unfinished_tasks, stop_event, stats_dict, stats_lock, w_item>>
    /\ UNCHANGED mainVars

\* [mutant] line 266 without stats_dict.get(platform_folder, 0): the entry is set
\* to one
W_StatsNoGet ==
    /\ wpc = "locked"
    /\ stats_dict' = (platform_folder :> 1) @@ stats_dict
    /\ stats_lock' = "free"
    /\ processed' = Append(processed, w_item.family_id)
    /\ wpc' = "task_done"
    /\ UNCHANGED <<files, file_queue, unfinished_tasks, stop_event, w_item,
                   platform_folder, created, dropped>>
    /\ UNCHANGED mainVars

\* [mutant] lines 265-266 without `with stats_lock`
W_LockNotTaken ==
    /\ wpc = "stats"
    /\ wpc' = "locked"
    /\ UNCHANGED <<files, file_queue, unfinished_tasks, stop_event, stats_dict,
                   stats_lock, w_item, platform_folder, processed, created,
                   dropped>>
    /\ UNCHANGED mainVars

\* line 265: with stats_lock: the lock is acquired, once it is free
W_Lock ==
    /\ wpc = "stats"
    /\ stats_lock = "free"
    /\ stats_lock' = "writer"
    /\ wpc' = "locked"
    /\ UNCHANGED <<files, file_queue, unfinished_tasks, stop_event, stats_dict,
                   w_item, platform_folder, processed, created, dropped>>
    /\ UNCHANGED mainVars

\* lines 266-267: stats_dict[folder] = stats_dict.get(folder, 0) + 1, and the
\* lock is released at the end of the with block
W_Stats ==
    /\ wpc = "locked"
    /\ stats_dict' = (platform_folder :>
                        ((IF platform_folder \in DOMAIN stats_dict
                          THEN stats_dict[platform_folder] ELSE 0) + 1))
                     @@ stats_dict
    /\ stats_lock' = "free"
    /\ processed' = Append(processed, w_item.family_id)
    /\ wpc' = "task_done"
    /\ UNCHANGED <<files, file_queue, unfinished_tasks, stop_event, w_item,
                   platform_folder, created, dropped>>
    /\ UNCHANGED mainVars

\* lines 269 and 274: file_queue.task_done()
W_TaskDone ==
    /\ wpc = "task_done"
    /\ unfinished_tasks' = unfinished_tasks - 1
    /\ w_item' = << >>
    /\ platform_folder' = None
    /\ wpc' = "check"
    /\ UNCHANGED <<files, file_queue, stop_event, stats_dict, stats_lock, processed, created,
                   dropped>>
    /\ UNCHANGED mainVars

(***************************************************************************)
(* The specification.                                                      *)
(***************************************************************************)
Main ==
    \/ ListOk
    \/ ListFail
    \/ Request
    \/ Put
    \/ SignalStop
    \/ QueueJoin
    \/ ThreadJoin
    \/ Summary
    \/ Interrupt
    \/ HandlerJoin
    \/ ProcessExit
    \/ StartRun

Writer ==
    \/ W_CheckStop
    \/ W_CheckEmpty
    \/ W_Get
    \/ W_Generate
    \/ W_Lock
    \/ W_Stats
    \/ W_TaskDone

Next ==
    Main \/ Writer

Spec ==
    Init /\ [][Next]_vars

\* two runs against an unchanged catalog, the first on an empty storage,
\* neither interrupted by the user
InitTwice ==
    RunStart(NoFiles, "first") /\ NoResolve

NextTwice ==
    \/ ListOk
    \/ ListFail
    \/ Request
    \/ Put
    \/ SignalStop
    \/ QueueJoin
    \/ ThreadJoin
    \/ Summary
    \/ HandlerJoin
    \/ ProcessExit
    \/ StartRun
    \/ Writer

SpecTwice ==
    InitTwice /\ [][NextTwice]_vars

\* one run on an empty storage whose list request is answered and which the
\* user does not interrupt, both threads scheduled fairly
MainFair ==
    \/ ListOk
    \/ Request
    \/ Put
    \/ SignalStop
    \/ QueueJoin
    \/ ThreadJoin
    \/ Summary
    \/ ProcessExit

NextFair ==
    MainFair \/ Writer

SpecFair ==
    Init /\ [][NextFair]_vars /\ WF_vars(MainFair) /\ WF_vars(Writer)

(***************************************************************************)
(* resolve_attribution on its own: every list of names up to MaxNames and  *)
(* every Alias Map of AliasMaps, then one call.                            *)
(***************************************************************************)
MaxNames ==
    3

AptXLower ==
    <<"a", "p", "t", "-", "x">>

AptXUpper ==
    <<"A", "P", "T", "-", "X">>

UnknownActor ==
    <<"U", "n", "k", "n", "o", "w", "n", " ", "A", "c", "t", "o", "r">>

AttributionNames ==
    {AptXLower, AptXUpper, GroupAlpha, UnknownActor}

AttributionLists ==
    UNION { [1..n -> AttributionNames] : n \in 0..MaxNames }

\* Alias Maps as build_attribution_map builds them: keys are upper-cased
AliasMaps ==
    { << >>,
      (AptXUpper :> GroupAlpha),
      (AptXUpper :> GroupAlpha) @@ (Upper(GroupAlpha) :> GroupAlpha),
      (Upper(UnknownActor) :> AptXLower) }

InitResolve ==
    /\ RunStart(NoFiles, "off")
    /\ r_names \in AttributionLists
    /\ r_map \in AliasMaps
    /\ r_called = FALSE
    /\ r_result = {}

CallResolve ==
    /\ ~r_called
    /\ r_result' = resolve_attribution(r_names, r_map)
    /\ r_called' = TRUE
    /\ UNCHANGED <<pipelineVars, r_names, r_map>>

NextResolve ==
    CallResolve

SpecResolve ==
    InitResolve /\ [][NextResolve]_vars

(***************************************************************************)
(* Properties.                                                             *)
(***************************************************************************)
NameMissing(info) ==
    info.common_name = None \/ info.common_name = << >>

IsPrefix(s, t) ==
    Len(s) <= Len(t) /\ s = SubSeq(t, 1, Len(s))

\* s can be had from t by leaving elements out
RECURSIVE IsSubseq(_, _)
IsSubseq(s, t) ==
    IF s = << >> THEN TRUE
    ELSE IF t = << >> THEN FALSE
    ELSE IF Head(s) = Head(t) THEN IsSubseq(Tail(s), Tail(t))
    ELSE IsSubseq(s, Tail(t))

\* the documents on storage whose frontmatter declares family_id
DocumentsOf(family_id) ==
    { path \in DOMAIN files :
        files[path].complete /\ files[path].family_id = family_id }

WindowsFolder ==
    <<"W", "i", "n", "d", "o", "w", "s">>

\* C10: resolve_attribution returns exactly the set of map[UPPER(n)] where
\* UPPER(n) is a key of the Alias Map and n otherwise, for the names n of the
\* list; with an empty map that is the set of the names; and with the map
\* {"APT-X": "Group Alpha"} the list ["apt-x", "Group Alpha", "Unknown Actor"]
\* gives {"Group Alpha", "Unknown Actor"}.
C10_ResolveIsAliasImage ==
    r_called =>
        /\ r_result = { IF Upper(n) \in DOMAIN r_map THEN r_map[Upper(n)] ELSE n :
                          n \in Range(r_names) }
        /\ (DOMAIN r_map = {} => r_result = Range(r_names))
        /\ (/\ r_map = (AptXUpper :> GroupAlpha)
            /\ r_names = <<AptXLower, GroupAlpha, UnknownActor>>
            => r_result = {GroupAlpha, UnknownActor})

C10_Witness ==
    /\ r_called
    /\ r_map = (AptXUpper :> GroupAlpha)
    /\ r_names = <<AptXLower, GroupAlpha, UnknownActor>>
    /\ Cardinality(r_result) = 2

\* C3: a record whose common_name is missing or empty is never put on the
\* queue, never reaches the writer, never becomes a document and never changes
\* the statistics: after such an answer main goes straight to the next id;
\* what is put on the queue is the record just answered, with a name.
C3_NamelessHeld ==
    /\ pc = "put" => ~NameMissing(family_info)
    /\ \A k \in DOMAIN file_queue : ~NameMissing(file_queue[k].family_info)
    /\ wpc \in {"generate", "stats", "locked", "task_done"} => ~NameMissing(w_item.family_info)
    /\ \A path \in DOMAIN files :
         files[path].complete => files[path].name \notin {None, << >>}

C3_NamelessStep ==
    /\ (/\ pc = "fetch" /\ requests' = requests + 1
        /\ ~last_answer'.response.raised
        /\ last_answer'.response.status_code = HTTP_OK
        /\ NameMissing(last_answer'.response.family_info))
       => /\ pc' = "fetch"
          /\ i' = i + 1
          /\ enqueued' = enqueued
          /\ file_queue' = file_queue
          /\ stats_dict' = stats_dict
          /\ files' = files
    /\ (pc # "exited" /\ enqueued' # enqueued)
       => /\ enqueued' = Append(enqueued, last_answer.family_id)
          /\ ~last_answer.response.raised
          /\ last_answer.response.status_code = HTTP_OK
          /\ ~NameMissing(last_answer.response.family_info)

C3_RequiredFieldGate ==
    []C3_NamelessHeld /\ [][C3_NamelessStep]_vars

\* the catalog lists win.a and elf.c-d, elf.c-d is answered with an empty
\* common_name: one document, under Windows, and the statistics {Windows: 1}
C3_Witness ==
    /\ pc = "exited"
    /\ exit_path = "normal"
    /\ families_list = <<WinA, ElfCD>>
    /\ requested = <<WinA, ElfCD>>
    /\ enqueued = <<WinA>>
    /\ DOMAIN files = {<<WindowsFolder, <<"F">> >>}
    /\ stats_dict = (WindowsFolder :> 1)

\* C4: the writer's loop has ended only if stop_event is set and the queue is
\* empty, with everything that was put on the queue taken off it and dealt
\* with; from a state with stop_event set and items queued it goes on to get.
\* (The thread stops in no other way but with the process: wpc = "killed".)
C4_WriterExitHeld ==
    /\ wpc = "done" => /\ stop_event
                       /\ file_queue = << >>
                       /\ processed = enqueued
    /\ wpc = "killed" => pc = "exited"

C4_WriterExitStep ==
    /\ (wpc # "done" /\ wpc' = "done")
       => stop_event /\ file_queue = << >> /\ wpc = "check_empty"
    /\ (wpc = "check_empty" /\ file_queue # << >> /\ wpc' # wpc)
       => wpc' \in {"get", "killed"}

C4_WriterExitsOnlyWhenDrained ==
    []C4_WriterExitHeld /\ [][C4_WriterExitStep]_vars

\* the fetcher was interrupted after three records, and the writer has ended
\* after dealing with all three
C4_Witness ==
    /\ wpc = "done"
    /\ exit_path = "interrupt"
    /\ Len(processed) = 3
    /\ Len(requested) = 3

\* C5: on the normal path the summary is logged only with stop_event set, the
\* queue empty and every record that was put on the queue dealt with by the
\* writer, once each and in full.
C5_SummaryAfterAllProcessed ==
    (pc = "summary" \/ reported # << >>)
    => /\ stop_event
       /\ file_queue = << >>
       /\ unfinished_tasks = 0
       /\ processed = enqueued
       /\ wpc \notin {"generate", "stats", "locked", "task_done"}
       /\ \A j, k \in DOMAIN processed : processed[j] = processed[k] => j = k

C5_Witness ==
    /\ reported # << >>
    /\ exit_path = "normal"
    /\ Len(enqueued) = 3
    /\ processed = enqueued

EarlyEnd ==
    exit_path \in {"error", "interrupt"}

\* C6 as stated: when main leaves its loop early (an exception, the user's
\* interrupt), stop_event is set and, by the time the process has exited,
\* every record that was put on the queue has been dealt with by the writer,
\* none left on the queue.
C6_EarlyEndDrainsQueue ==
    /\ (EarlyEnd /\ pc \in {"hjoin", "done", "exited"}) => stop_event
    /\ (EarlyEnd /\ pc = "exited")
       => file_queue = << >> /\ processed = enqueued

\* C6 amended: the same, provided writer_thread.join(timeout=30) returned
\* because the writer had ended and not because the 30 s had elapsed.
C6_EarlyEndDrainsQueueUnlessTimeout ==
    /\ (EarlyEnd /\ pc \in {"hjoin", "done", "exited"}) => stop_event
    /\ (EarlyEnd /\ pc \in {"done", "exited"} /\ join_result = "ended")
       => /\ file_queue = << >>
          /\ processed = enqueued
          /\ wpc = "done"

\* interrupted with records on the queue; the writer dealt with them and ended
\* before the join returned
C6_Witness ==
    /\ pc = "exited"
    /\ exit_path = "interrupt"
    /\ join_result = "ended"
    /\ Len(enqueued) >= 2
    /\ processed = enqueued

\* C7: the queue never holds more than maxsize items; while it holds maxsize
\* and main is at put, main does nothing but wait (no request, nothing put;
\* only the interrupt takes it elsewhere); an item is put only when there is
\* room; and only the writer's get takes items off the queue.
C7_QueueBounded ==
    Len(file_queue) <= maxsize

C7_BlockedStep ==
    /\ (pc = "put" /\ Len(file_queue) = maxsize)
       => /\ requests' = requests
          /\ enqueued' = enqueued
          /\ pc' \in {"put", "hjoin"}
    /\ (pc # "exited" /\ enqueued' # enqueued) => Len(file_queue) < maxsize
    /\ (pc # "exited" /\ Len(file_queue') < Len(file_queue))
       => wpc = "get" /\ wpc' = "generate"

C7_Backpressure ==
    []C7_QueueBounded /\ [][C7_BlockedStep]_vars

\* main is blocked in put: the queue is full
C7_Witness ==
    /\ pc = "put"
    /\ Len(file_queue) = maxsize
    /\ Len(requested) = maxsize + 1

\* C8: the ids are requested in the order of the list, put on the queue in
\* the order they were requested, taken off and dealt with by the writer in
\* the order they were put, and their documents written in that order; when
\* all of [a, b, c] are written they are written a, b, c.
C8_FifoOrder ==
    /\ IsPrefix(requested, families_to_fetch)
    /\ IsSubseq(enqueued, requested)
    /\ IsPrefix(processed, enqueued)
    /\ IsSubseq(created, enqueued)
    /\ (Len(created) = 3 => created = families_to_fetch)

C8_Witness ==
    /\ families_to_fetch = <<WinA, WinB, ElfCD>>
    /\ created = <<WinA, WinB, ElfCD>>
    /\ Cardinality(DOMAIN files) = 3

\* C9 as stated: every request but the first of a run is dispatched after
\* time.sleep(1.1) ran since the request before it, whatever that request's
\* outcome was.
C9_DelayBetweenRequests ==
    [][requests' = requests + 1 => (requests = 0 \/ delayed)]_vars

\* C1 as stated: whatever the runs, no two documents on storage declare the
\* same family_id.
C1_NoDuplicateOutput ==
    \A family_id \in FamilyIds : Cardinality(DocumentsOf(family_id)) <= 1

C11_FlagHeld ==
    /\ pc \in {"qjoin", "tjoin", "summary", "hjoin", "done", "exited"} => stop_event
    /\ pc \in {"done", "exited"}
       => /\ exit_path \in {"normal", "interrupt", "error"}
          /\ join_result \in {"ended", "timeout"}
    /\ (pc \in {"summary", "done", "exited"} /\ join_result = "ended") => wpc = "done"

C11_FlagStep ==
    /\ (exit_path # "interrupt" /\ exit_path' = "interrupt")
       => /\ stop_event'
          /\ pc' = "hjoin"
          /\ requests' = requests
          /\ enqueued' = enqueued
          /\ file_queue' = file_queue
    /\ (pc = "hjoin" /\ pc' # pc) => pc' = "done" /\ join_result' \in {"ended", "timeout"}
    /\ (pc = "tjoin" /\ pc' = "summary") => join_result' \in {"ended", "timeout"}

C11_FlagSetOnEveryExitPath ==
    []C11_FlagHeld /\ [][C11_FlagStep]_vars

\* interrupted while blocked in put: the record in hand was never put, the
\* flag is set and main has been through the bounded wait
C11_Witness ==
    /\ pc = "done"
    /\ exit_path = "interrupt"
    /\ stop_event
    /\ family_info # NoInfo
    /\ Len(file_queue) = maxsize
    /\ Len(enqueued) = maxsize
    /\ Len(requested) = maxsize + 1

\* every put is matched by one task_done() once the writer is through with
\* the item, also when its write raised
TaskDoneOncePerItem ==
    unfinished_tasks = (Len(enqueued) - Len(processed))
                       + (IF wpc = "task_done" THEN 1 ELSE 0)

RunFinished ==
    /\ pc = "exited"
    /\ exit_path = "normal"
    /\ reported # << >>
    /\ processed = enqueued
    /\ unfinished_tasks = 0

C13_WrittenIffNoDocument ==
    (/\ wpc = "generate"
     /\ wpc' \in {"stats", "task_done"}
     /\ dropped' = dropped)
    => ((wpc' = "stats") <=> (DocumentsOf(w_item.family_id) = {}))

C13_OneDocumentEach ==
    \A k \in DOMAIN processed :
        processed[k] \notin Range(dropped)
        => Cardinality(DocumentsOf(processed[k])) = 1

C13_OneDocumentPerRecord ==
    []C13_OneDocumentEach /\ [][C13_WrittenIffNoDocument]_vars

\* C14: when the writer processes an item whose path (platform folder and
\* sanitized name) is already on storage, storage is left as it is, no
\* document is created and the statistics are not touched: the writer goes
\* straight to task_done(), whether generate_markdown_file returned None or
\* raised, and whatever the index holds.
C14_ExistingPathStep ==
    (wpc = "generate" /\ FilePath(w_item) \in DOMAIN files)
    => /\ files' = files
       /\ stats_dict' = stats_dict
       /\ created' = created
       /\ wpc' \in {"generate", "task_done", "killed"}

C14_ExistingPathLeftAlone ==
    [][C14_ExistingPathStep]_vars

\* the writer has turned an item down whose path holds another id's document
C14_Witness ==
    /\ wpc = "task_done"
    /\ dropped = << >>
    /\ platform_folder = None
    /\ FilePath(w_item) \in DOMAIN files
    /\ files[FilePath(w_item)].complete
    /\ files[FilePath(w_item)].family_id # w_item.family_id
    /\ stats_dict = (WindowsFolder :> 1)
    /\ created = <<WinA>>

\* the folder the documents of a family go to
FolderOf(family_id) ==
    get_platform_folder_name(extract_platform_from_id(family_id))

\* the number of documents written in this run under a folder
CreatedUnder(folder) ==
    Cardinality({ k \in DOMAIN created : FolderOf(created[k]) = folder })

\* stats_dict.get(folder, 0)
StatsOf(folder) ==
    IF folder \in DOMAIN stats_dict THEN stats_dict[folder] ELSE 0

Folders ==
    { FolderOf(family_id) : family_id \in FamilyIds }

\* the writer has written a document under the folder and not yet counted it
Uncounted(folder) ==
    IF wpc \in {"stats", "locked"} /\ platform_folder = folder THEN 1 ELSE 0

\* C15 as stated: in every state the entry of each platform is the number of
\* documents written under it in this run.
C15_StatsEqualDocuments ==
    /\ DOMAIN stats_dict \subseteq Folders
    /\ \A folder \in Folders : StatsOf(folder) = CreatedUnder(folder)

C15_StatsHeld ==
    /\ DOMAIN stats_dict \subseteq Folders
    /\ \A folder \in Folders :
         IF wpc = "killed"
         THEN StatsOf(folder) \in {CreatedUnder(folder), CreatedUnder(folder) - 1}
         ELSE StatsOf(folder) + Uncounted(folder) = CreatedUnder(folder)
    /\ wpc = "locked" => stats_lock = "writer"
    /\ stats_lock = "writer" => wpc \in {"locked", "killed"}

C15_StatsStep ==
    (stats_dict' # stats_dict /\ pc # "exited")
    => /\ wpc = "locked"
       /\ stats_lock = "writer"
       /\ UNCHANGED mainVars
       /\ created # << >>
       /\ created[Len(created)] = w_item.family_id
       /\ w_item.family_id \notin Range(dropped)
       /\ platform_folder = FolderOf(w_item.family_id)
       /\ DOMAIN stats_dict' = DOMAIN stats_dict \cup {platform_folder}
       /\ \A folder \in DOMAIN stats_dict' :
            stats_dict'[folder] = StatsOf(folder)
                                  + (IF folder = platform_folder THEN 1 ELSE 0)

\* C15: the entry of each platform is the number of documents written under it
\* in this run, except between the write of a document and its count, where
\* the entry of that document's platform is one less (and stays so when the
\* process ends there); the map changes only in the writer's step under
\* stats_lock, by one for the document just written, never for an item that
\* was turned down or whose processing raised.  A new run of the program
\* starts with an empty map.
C15_StatsCountDocuments ==
    []C15_StatsHeld /\ [][C15_StatsStep]_vars

\* two documents counted under Windows, and a third item dropped and not counted
C15_Witness ==
    /\ wpc = "done"
    /\ StatsOf(WindowsFolder) = 2
    /\ created = <<WinA, WinB>>
    /\ dropped = <<ElfCD>>
    /\ FolderOf(ElfCD) \notin DOMAIN stats_dict

\* the ids of the catalog list that are not keys of the index, in list order
NotIndexed ==
    SelectSeq(families_list, LAMBDA family_id : family_id \notin existing_files_map)

\* C16: the detail requests made so far are, in order, the first ids of the
\* catalog list that are not keys of the index, one request each, whatever
\* the answers were; once the loop is over they are all of them; and no
\* request is made for a key of the index.
C16_FetchSetHeld ==
    /\ IsPrefix(requested, NotIndexed)
    /\ \A k \in DOMAIN requested : requested[k] \notin existing_files_map
    /\ \A j, k \in DOMAIN requested : requested[j] = requested[k] => j = k
    /\ pc = "fetch" => Len(requested) = i - 1
    /\ pc = "put" => Len(requested) = i
    /\ (pc \in {"qjoin", "tjoin", "summary"} \/ exit_path = "normal")
       => requested = NotIndexed

\* a detail request is one more id, and the requests made stay made
C16_FetchSetStep ==
    (requested' # requested /\ pc # "exited")
    => /\ pc = "fetch"
       /\ Len(requested') = Len(requested) + 1
       /\ IsPrefix(requested, requested')

C16_FetchSet ==
    []C16_FetchSetHeld /\ [][C16_FetchSetStep]_vars

\* a run over a list with an indexed id: that id was not requested, the
\* others were, once each, also the one whose request failed
C16_Witness ==
    /\ pc = "summary"
    /\ families_list = <<WinA, WinB, ElfCD>>
    /\ existing_files_map = {WinA}
    /\ requested = <<WinB, ElfCD>>
    /\ enqueued = <<ElfCD>>

\* the detail request of this step was answered with a status other than 200,
\* or the request or the parsing of its answer raised
RequestFailed ==
    /\ pc = "fetch"
    /\ requested' # requested
    /\ \/ last_answer'.response.raised
       \/ last_answer'.response.status_code # HTTP_OK

\* C17: a detail request that raised or was answered with a status other
\* than 200 puts nothing on the queue, leaves the counter as it is, does not
\* end the run (no stop signal, no exit path taken) and leaves main at the
\* top of the loop with the next id.
C17_FailedRequestStep ==
    RequestFailed
    => /\ enqueued' = enqueued
       /\ file_queue' = file_queue
       /\ unfinished_tasks' = unfinished_tasks
       /\ total_fetched' = total_fetched
       /\ stop_event' = stop_event
       /\ exit_path' = exit_path
       /\ pc' = "fetch"
       /\ i' = i + 1

\* the counter is the number of records put on the queue, and these are
\* among the ids requested, in the order of the requests
C17_CounterHeld ==
    /\ total_fetched = Len(enqueued)
    /\ IsSubseq(enqueued, requested)

C18_RaiseStep ==
    dropped' # dropped
    => /\ wpc = "generate"
       /\ dropped' = Append(dropped, w_item.family_id)
       /\ processed' = Append(processed, w_item.family_id)
       /\ file_queue' = file_queue
       /\ enqueued' = enqueued
       /\ unfinished_tasks' = unfinished_tasks
       /\ stats_dict' = stats_dict
       /\ created' = created
       /\ wpc' = "task_done"

\* no item is processed twice, a dropped item is not counted as created, and
\* the items are finished with in the order they were put on the queue
C18_RaiseHeld ==
    /\ \A j, k \in DOMAIN processed : processed[j] = processed[k] => j = k
    /\ Range(dropped) \cap Range(created) = {}
    /\ IsSubseq(dropped, processed)
    /\ IsPrefix(processed, enqueued)

\* C18: a raise while one item is processed drops that item only: nothing is
\* put back or tried again, the statistics stay, the writer stays alive, and
\* every item put on the queue, before or after, is dequeued and finished with.
C18_WriterFailureIsolation ==
    /\ []C18_RaiseHeld
    /\ [][C18_RaiseStep]_vars
    /\ \A family_id \in FamilyIds :
         (family_id \in Range(enqueued)) ~> (family_id \in Range(processed))

\* the first item raised; the second, queued after it, was written and counted
C18_Witness ==
    /\ wpc = "done"
    /\ enqueued = <<WinA, WinB>>
    /\ dropped = <<WinA>>
    /\ processed = <<WinA, WinB>>
    /\ created = <<WinB>>
    /\ stats_dict = (WindowsFolder :> 1)

\* a step that writes stats_dict within a run
StatsWritten ==
    stats_dict' # stats_dict /\ pc # "exited"

\* the step of main that reads stats_dict (line 407)
StatsRead ==
    pc = "summary" /\ reported' # reported

\* C19 as stated: the writer writes and main reads stats_dict holding
\* stats_lock, and main reads it only when the writer thread has ended.
C19_StatsAccessUnderMutex ==
    [][/\ StatsWritten => stats_lock = "writer"
       /\ StatsRead => (stats_lock = "main" /\ wpc = "done")]_vars

C19_AccessStep ==
    /\ StatsWritten => (wpc = "locked" /\ stats_lock = "writer" /\ stats_lock' = "free")
    /\ StatsRead => /\ stats_lock = "free"
                    /\ stats_lock' = "free"
                    /\ stop_event
                    /\ file_queue = << >>
                    /\ unfinished_tasks = 0
                    /\ wpc \notin {"generate", "stats", "locked", "task_done"}
                    /\ join_result \in {"ended", "timeout"}
                    /\ join_result = "ended" => wpc = "done"

\* what main read stays what the map holds: the writer writes no more
C19_NoWriteAfterRead ==
    reported # << >> => stats_dict = reported.by_platform

\* C19: every write of stats_dict is made by the writer holding stats_lock;
\* main reads it without the lock, after file_queue.join() returned, when
\* every item put on the queue is marked done and the writer, ended or not
\* (the wait for it is bounded), is outside the locked section and writes
\* no more.
C19_StatsAccess ==
    []C19_NoWriteAfterRead /\ [][C19_AccessStep]_vars

\* the summary was logged from a map with two writes while the writer thread
\* had not ended
C19_Witness ==
    /\ reported # << >>
    /\ ~reported.writer_ended
    /\ join_result = "timeout"
    /\ reported.by_platform = (WindowsFolder :> 2)
    /\ stats_lock = "free"
    /\ wpc # "done"

\* sum(counts.values())
RECURSIVE SumOver(_, _)
SumOver(counts, keys) ==
    IF keys = {} THEN 0
    ELSE LET key == CHOOSE k \in keys : TRUE
         IN  counts[key] + SumOver(counts, keys \ {key})

\* C20: the "Files created" figure of the summary is the sum of the figures
\* logged per platform, which is the number of documents written in the run.
C20_SummaryConsistent ==
    reported # << >>
    => /\ reported.files_created
            = SumOver(reported.by_platform, DOMAIN reported.by_platform)
       /\ reported.files_created = Len(created)

=============================================================================
